---- MODULE Spec2Model ----
(***************************************************************************)
(* A model of the air-quality data pipeline of analysis.py: load_data,     *)
(* clean_data, get_data_summary, calculate_air_quality_metrics,            *)
(* filter_by_date_range and get_daily_averages, and of the dashboard's     *)
(* load_and_clean_data of app.py.                                          *)
(*                                                                         *)
(* Text is a sequence of one-character strings.  A number is held in       *)
(* tenths (9.4 is 94), a sub-second fraction in microseconds.  A cell is   *)
(* one of                                                                  *)
(*    [k |-> "nan"]                         NaN / NaT / None (isna)        *)
(*    [k |-> "num", v |-> tenths]           int or float                   *)
(*    [k |-> "str", s |-> text]             str                            *)
(*    [k |-> "ts", y, mo, d, h, mi, s, us]  pandas Timestamp               *)
(*    [k |-> "time", h, mi, s, us]          datetime.time                  *)
(*    [k |-> "mean", sum, cnt]              a mean, sum (tenths) over cnt  *)
(* A table (DataFrame) is [cols, n, data, dtype]: the column names in      *)
(* order, the number of rows, the cells of each column, and each column's  *)
(* dtype ("num", "object" or "datetime").                                  *)
(***************************************************************************)
EXTENDS Integers, Sequences, FiniteSets, TLC

VARIABLES csv, heap, df, clean, clean2, app, res

vars == <<csv, heap, df, clean, clean2, app, res>>

(***************************************************************************)
(* Text primitives (Python str methods used by the pipeline).              *)
(***************************************************************************)
Range(f) == {f[i] : i \in DOMAIN f}

DigitChars == <<"0", "1", "2", "3", "4", "5", "6", "7", "8", "9">>

IsDigit(c) == \E i \in 1..10 : DigitChars[i] = c

DigitVal(c) == (CHOOSE i \in 1..10 : DigitChars[i] = c) - 1

AllDigits(s) == Len(s) > 0 /\ \A i \in 1..Len(s) : IsDigit(s[i])

RECURSIVE NatOf(_)
NatOf(s) == IF Len(s) = 0 THEN 0
            ELSE 10 * NatOf(SubSeq(s, 1, Len(s) - 1)) + DigitVal(s[Len(s)])

RECURSIVE NatText(_)
NatText(n) == IF n < 10 THEN <<DigitChars[n + 1]>>
              ELSE NatText(n \div 10) \o <<DigitChars[(n % 10) + 1]>>

RECURSIVE Pow10(_)
Pow10(k) == IF k = 0 THEN 1 ELSE 10 * Pow10(k - 1)

\* n written with at least w digits, zero padded (%02d, %04d, %06d).
RECURSIVE Pad(_, _)
Pad(n, w) == IF Len(NatText(n)) >= w THEN NatText(n)
             ELSE <<"0">> \o Pad(n, w - 1)

\* str.replace(a, b) for one-character a and b.
StrReplace(s, a, b) == [i \in 1..Len(s) |-> IF s[i] = a THEN b ELSE s[i]]

\* str.strip(): leading and trailing blanks removed.
RECURSIVE StrStrip(_)
StrStrip(s) == IF Len(s) = 0 THEN s
               ELSE IF s[1] = " " THEN StrStrip(Tail(s))
               ELSE IF s[Len(s)] = " " THEN StrStrip(SubSeq(s, 1, Len(s) - 1))
               ELSE s

\* str.split(sep) for a one-character sep: the fields between separators.
RECURSIVE StrSplit(_, _)
StrSplit(s, sep) ==
    IF \A i \in 1..Len(s) : s[i] # sep THEN <<s>>
    ELSE LET p == CHOOSE i \in 1..Len(s) :
                      s[i] = sep /\ \A j \in 1..(i - 1) : s[j] # sep
         IN <<SubSeq(s, 1, p - 1)>> \o StrSplit(SubSeq(s, p + 1, Len(s)), sep)

(***************************************************************************)
(* Values.                                                                 *)
(***************************************************************************)
NaN == [k |-> "nan"]

Num(v) == [k |-> "num", v |-> v]

Str(s) == [k |-> "str", s |-> s]

Ts(y, mo, d, h, mi, s, us) ==
    [k |-> "ts", y |-> y, mo |-> mo, d |-> d, h |-> h, mi |-> mi, s |-> s, us |-> us]

Time(h, mi, s, us) == [k |-> "time", h |-> h, mi |-> mi, s |-> s, us |-> us]

\* Series.isna() / notna() of one cell.
IsNa(c) == c.k = "nan"

NotNa(c) == ~IsNa(c)

\* The missing-data indicator of the data set, in units.
Sentinel == -200

\* The date pandas gives a time that was parsed without one under a format.
StrptimeDate == [y |-> 1900, mo |-> 1, d |-> 1]

\* The date the format-inferring parser gives a time written without one: the
\* day of the run.
Today == [y |-> 2026, mo |-> 11, d |-> 1]

(***************************************************************************)
(* Formatting: astype(str), dt.strftime('%Y-%m-%d'), str(datetime.time).   *)
(***************************************************************************)
\* A float as Python writes it: "9.4", "-200.0".
NumText(v) ==
    LET a == IF v < 0 THEN -v ELSE v
    IN (IF v < 0 THEN <<"-">> ELSE <<>>)
         \o NatText(a \div 10) \o <<".">> \o NatText(a % 10)

DateText(t) == Pad(t.y, 4) \o <<"-">> \o Pad(t.mo, 2) \o <<"-">> \o Pad(t.d, 2)

TimeText(t) ==
    Pad(t.h, 2) \o <<":">> \o Pad(t.mi, 2) \o <<":">> \o Pad(t.s, 2)
      \o (IF t.us = 0 THEN <<>> ELSE <<".">> \o Pad(t.us, 6))

TsText(t) == DateText(t) \o <<" ">> \o TimeText(t)

\* Series.astype(str) of one cell.
AsStr(c) ==
    CASE c.k = "nan"  -> <<"n", "a", "n">>
      [] c.k = "num"  -> NumText(c.v)
      [] c.k = "str"  -> c.s
      [] c.k = "ts"   -> TsText(c)
      [] c.k = "time" -> TimeText(c)

(***************************************************************************)
(* Parsing.                                                                *)
(***************************************************************************)
\* The strings pandas reads as missing.
NullTexts == { <<>>, <<"n", "a", "n">>, <<"N", "a", "N">>, <<"N", "a", "T">> }

\* pd.to_numeric(text, errors='coerce'): blanks around it, a sign, digits and an
\* optional fraction; a fraction is kept to the tenth.
Unsigned(parts) ==
    IF Len(parts) = 1 /\ AllDigits(parts[1]) THEN Num(10 * NatOf(parts[1]))
    ELSE IF Len(parts) = 2 /\ AllDigits(parts[1])
             /\ (Len(parts[2]) = 0 \/ AllDigits(parts[2]))
      THEN Num(10 * NatOf(parts[1])
                 + (IF Len(parts[2]) = 0 THEN 0 ELSE DigitVal(parts[2][1])))
    ELSE NaN

Signed(s) ==
    IF Len(s) > 0 /\ s[1] = "-" THEN Unsigned(StrSplit(Tail(s), "."))
    ELSE IF Len(s) > 0 /\ s[1] = "+" THEN Unsigned(StrSplit(Tail(s), "."))
    ELSE Unsigned(StrSplit(s, "."))

Negate(c, neg) == IF neg /\ c.k = "num" THEN Num(-c.v) ELSE c

NumberOf(s) == Negate(Signed(s), Len(s) > 0 /\ s[1] = "-")

ToNumeric(text) == NumberOf(StrStrip(text))

IsLeap(y) == (y % 4 = 0 /\ y % 100 # 0) \/ y % 400 = 0

DaysIn(y, mo) == IF mo = 2 THEN (IF IsLeap(y) THEN 29 ELSE 28)
                 ELSE IF mo \in {4, 6, 9, 11} THEN 30 ELSE 31

ValidDate(y, mo, d) == y >= 1 /\ mo \in 1..12 /\ d >= 1 /\ d <= DaysIn(y, mo)

\* A one- or two-digit field of a strptime format (%H, %M, %S).
Field2(f) == AllDigits(f) /\ Len(f) <= 2

\* The fields of a clock text of nfields fields (2: H:M, 3: H:M:S) as
\* [ok, h, mi, s, us]; withFrac allows a fraction ".ffffff" after the seconds.
ClockBad == [ok |-> FALSE, h |-> 0, mi |-> 0, s |-> 0, us |-> 0]

ClockOk(h, mi, s, us) ==
    IF h <= 23 /\ mi <= 59 /\ s <= 59
      THEN [ok |-> TRUE, h |-> h, mi |-> mi, s |-> s, us |-> us]
      ELSE ClockBad

ClockFields(f, last, nfields, withFrac) ==
       IF Len(f) # nfields \/ ~Field2(f[1]) \/ ~Field2(f[2]) THEN ClockBad
       ELSE IF nfields = 2 THEN ClockOk(NatOf(f[1]), NatOf(f[2]), 0, 0)
       ELSE IF Len(last) = 1 /\ Field2(f[3])
         THEN ClockOk(NatOf(f[1]), NatOf(f[2]), NatOf(f[3]), 0)
       ELSE IF withFrac /\ Len(last) = 2 /\ Field2(last[1])
                /\ AllDigits(last[2]) /\ Len(last[2]) <= 6
         THEN ClockOk(NatOf(f[1]), NatOf(f[2]), NatOf(last[1]),
                      NatOf(last[2]) * Pow10(6 - Len(last[2])))
       ELSE ClockBad

LastField(f) == IF Len(f) = 3 THEN StrSplit(f[3], ".") ELSE <<>>

ClockSplit(f, nfields, withFrac) == ClockFields(f, LastField(f), nfields, withFrac)

Clock(text, nfields, withFrac) == ClockSplit(StrSplit(text, ":"), nfields, withFrac)

\* pd.to_datetime(text, format=fmt, errors='coerce') for '%H:%M:%S' (nfields = 3)
\* and '%H:%M' (nfields = 2): the whole text must match.
TsOf(date, c) == Ts(date.y, date.mo, date.d, c.h, c.mi, c.s, c.us)

StrptimeClock(text, c) ==
    IF text \in NullTexts \/ ~c.ok THEN NaN ELSE TsOf(StrptimeDate, c)

Strptime(text, nfields) == StrptimeClock(text, Clock(text, nfields, FALSE))

\* The date of a date text as [ok, y, mo, d]: ISO year-month-day, or
\* a/b/year read month first (dayfirst=False) and day first when a is no month.
DateBad == [ok |-> FALSE, y |-> 0, mo |-> 0, d |-> 0]

DateOk(y, mo, d) ==
    IF ValidDate(y, mo, d) THEN [ok |-> TRUE, y |-> y, mo |-> mo, d |-> d] ELSE DateBad

DateFields(iso, sl) ==
       IF Len(iso) = 3 /\ AllDigits(iso[1]) /\ Len(iso[1]) = 4
            /\ Field2(iso[2]) /\ Field2(iso[3])
         THEN DateOk(NatOf(iso[1]), NatOf(iso[2]), NatOf(iso[3]))
       ELSE IF Len(sl) = 3 /\ Field2(sl[1]) /\ Field2(sl[2])
                /\ AllDigits(sl[3]) /\ Len(sl[3]) = 4
         THEN IF NatOf(sl[1]) <= 12
                THEN DateOk(NatOf(sl[3]), NatOf(sl[1]), NatOf(sl[2]))
                ELSE DateOk(NatOf(sl[3]), NatOf(sl[2]), NatOf(sl[1]))
       ELSE DateBad

DateOf(text) == DateFields(StrSplit(text, "-"), StrSplit(text, "/"))

FirstOk(a, b) == IF a.ok THEN a ELSE b

ClockAny(text) == FirstOk(Clock(text, 3, TRUE), Clock(text, 2, TRUE))

\* pd.to_datetime(text, errors='coerce', infer_datetime_format=True) of one
\* text: a date, a time of day, or a date and a time separated by a blank.
InferFrom(s, n, d, c) ==
    IF s \in NullTexts THEN NaN
    ELSE IF n = 1 /\ d.ok THEN TsOf(d, ClockOk(0, 0, 0, 0))
    ELSE IF n = 1 /\ c.ok THEN TsOf(Today, c)
    ELSE IF n = 2 /\ d.ok /\ c.ok THEN TsOf(d, c)
    ELSE NaN

InferParts(s, p) == InferFrom(s, Len(p), DateOf(p[1]), ClockAny(p[Len(p)]))

InferStripped(s) == InferParts(s, StrSplit(s, " "))

InferParse(text) == InferStripped(StrStrip(text))

\* pd.to_datetime of one cell that may already be a timestamp or a number.
ToDatetime(c) ==
    CASE c.k = "ts"  -> c
      [] c.k = "str" -> InferParse(c.s)
      [] c.k = "num" -> Ts(1970, 1, 1, 0, 0, 0, 0)
      [] OTHER       -> NaN

\* Series.dt.time of one cell.
DtTime(c) == IF c.k = "ts" THEN Time(c.h, c.mi, c.s, c.us) ELSE NaN


(***************************************************************************)
(* Tables.                                                                 *)
(***************************************************************************)
HasCol(t, c) == \E j \in 1..Len(t.cols) : t.cols[j] = c

\* df[c] = column, with the dtype of the assigned column: an existing column is
\* replaced in place, a new one is appended.
SetCol(t, c, column, dt) ==
    [cols  |-> IF HasCol(t, c) THEN t.cols ELSE Append(t.cols, c),
     n     |-> t.n,
     data  |-> [x \in Range(t.cols) \cup {c} |-> IF x = c THEN column ELSE t.data[x]],
     dtype |-> [x \in Range(t.cols) \cup {c} |-> IF x = c THEN dt ELSE t.dtype[x]]]

\* The table restricted to the columns keep, in their order.
RECURSIVE KeepCols(_, _)
KeepCols(cols, keep) ==
    IF Len(cols) = 0 THEN <<>>
    ELSE (IF Head(cols) \in keep THEN <<Head(cols)>> ELSE <<>>)
           \o KeepCols(Tail(cols), keep)

\* The rows of the table at the positions idx (a sequence of row numbers).
TakeRows(t, idx) ==
    [cols  |-> t.cols,
     n     |-> Len(idx),
     data  |-> [c \in Range(t.cols) |-> [i \in 1..Len(idx) |-> t.data[c][idx[i]]]],
     dtype |-> t.dtype]

\* The row numbers of 1..n that satisfy keep, ascending.
RECURSIVE RowsWhere(_, _)
RowsWhere(n, keep) ==
    IF n = 0 THEN <<>>
    ELSE RowsWhere(n - 1, keep) \o (IF keep[n] THEN <<n>> ELSE <<>>)

(***************************************************************************)
(* load_data                                                               *)
(***************************************************************************)
\* pd.read_csv(file_path, sep=';'): a column whose fields are all numbers or
\* empty is numeric, any other column holds its fields as text; an empty field
\* is missing.
ReadCsv(file) ==
    LET n == Len(file.lines)
        field(j, i) == file.lines[i][j]
        numeric(j) == \A i \in 1..n :
                         field(j, i) \in NullTexts \/ NotNa(ToNumeric(field(j, i)))
        cell(j, i) == IF field(j, i) \in NullTexts THEN NaN
                      ELSE IF numeric(j) THEN ToNumeric(field(j, i))
                      ELSE Str(field(j, i))
        pos(c) == CHOOSE j \in 1..Len(file.header) : file.header[j] = c
    IN [cols  |-> file.header,
        n     |-> n,
        data  |-> [c \in Range(file.header) |-> [i \in 1..n |-> cell(pos(c), i)]],
        dtype |-> [c \in Range(file.header) |->
                      IF numeric(pos(c)) THEN "num" ELSE "object"]]

\* Mutant of DropEmptyCols: nothing is dropped.
KeepAllCols(t) == t

\* df.dropna(axis=1, how='all'): the columns with no present value are dropped.
DropEmptyCols(t) ==
    LET keep == {c \in Range(t.cols) : \E i \in 1..t.n : NotNa(t.data[c][i])}
    IN [cols  |-> KeepCols(t.cols, keep),
        n     |-> t.n,
        data  |-> [c \in keep |-> t.data[c]],
        dtype |-> [c \in keep |-> t.dtype[c]]]

LoadData(file) == DropEmptyCols(ReadCsv(file))

(***************************************************************************)
(* clean_data                                                              *)
(***************************************************************************)
NumericColumns ==
    <<"CO(GT)", "PT08.S1(CO)", "NMHC(GT)", "C6H6(GT)", "PT08.S2(NMHC)", "NOx(GT)",
      "PT08.S3(NOx)", "NO2(GT)", "PT08.S4(NO2)", "PT08.S5(O3)", "T", "RH", "AH">>

\* replace(-200, np.nan) of one cell: a number equal to the sentinel, integer or
\* float, becomes missing; a text never matches.
ReplaceSentinelCell(c) == IF c.k = "num" /\ c.v = 10 * Sentinel THEN NaN ELSE c

\* df_clean.replace(-200, np.nan), over every column.
ReplaceSentinel(t) ==
    [t EXCEPT !.data = [c \in Range(t.cols) |->
                           [i \in 1..t.n |-> ReplaceSentinelCell(t.data[c][i])]]]

\* Series.combine_first of one cell: the first value unless it is missing.
CombineFirst(a, b) == IF NotNa(a) THEN a ELSE b

\* The Date column parsed.
ParseDateColumn(t) ==
    IF HasCol(t, "Date")
      THEN SetCol(t, "Date", [i \in 1..t.n |-> ToDatetime(t.data["Date"][i])], "datetime")
      ELSE t

\* One value of the Time column through the chain of parses.
\* Mutant of ParseTimeTexts: the last fallback reads the normalized text.
ParseTimeTextsNormFallback(time_series, time_norm) ==
    DtTime(CombineFirst(CombineFirst(Strptime(time_norm, 3), Strptime(time_norm, 2)),
                        InferParse(time_norm)))

ParseTimeTexts(time_series, time_norm) ==
    DtTime(CombineFirst(CombineFirst(Strptime(time_norm, 3), Strptime(time_norm, 2)),
                        InferParse(time_series)))

ParseTimeText(time_series) ==
    ParseTimeTexts(time_series, StrReplace(time_series, ".", ":"))

ParseTimeCell(c) == ParseTimeText(StrStrip(AsStr(c)))

ParseTimeColumn(t) ==
    IF HasCol(t, "Time")
      THEN SetCol(t, "Time", [i \in 1..t.n |-> ParseTimeCell(t.data["Time"][i])], "object")
      ELSE t

\* Mutant of CombineDateTime: a record without a Time gets its Date alone.
CombineDateTimeDateOnly(date, time) ==
    IF NotNa(date) /\ NotNa(time)
      THEN InferParse(DateText(date) \o <<" ">> \o AsStr(time))
      ELSE IF NotNa(date) THEN InferParse(DateText(date)) ELSE NaN

\* The timestamp of one record from its parsed Date and Time.
CombineDateTime(date, time) ==
    IF NotNa(date) /\ NotNa(time)
      THEN InferParse(DateText(date) \o <<" ">> \o AsStr(time))
      ELSE NaN

\* The DateTime column and its alias Datetime.
DateTimeColumn(t) ==
    IF HasCol(t, "Date") /\ HasCol(t, "Time")
      THEN [i \in 1..t.n |-> CombineDateTime(t.data["Date"][i], t.data["Time"][i])]
      ELSE [i \in 1..t.n |-> NaN]

Alias(t1) == SetCol(t1, "Datetime", t1.data["DateTime"], "datetime")

DeriveDateTime(t) == Alias(SetCol(t, "DateTime", DateTimeColumn(t), "datetime"))

\* Mutant of CoerceCell: the comma is not replaced.
CoerceCellNoComma(c) == ToNumeric(AsStr(c))

\* One cell of a named measurement column: comma to dot, then to a number.
CoerceCell(c) == ToNumeric(StrReplace(AsStr(c), ",", "."))

\* The loop over numeric_columns, from position j on.
RECURSIVE CoerceNumeric(_, _)
CoerceColumn(t, col) ==
    IF HasCol(t, col)
      THEN SetCol(t, col, [i \in 1..t.n |-> CoerceCell(t.data[col][i])], "num")
      ELSE t

CoerceNumeric(t, j) ==
    IF j > Len(NumericColumns) THEN t
    ELSE CoerceNumeric(CoerceColumn(t, NumericColumns[j]), j + 1)

\* clean_data on the value of a table.
CleanData(t) ==
    CoerceNumeric(DeriveDateTime(ParseTimeColumn(ParseDateColumn(ReplaceSentinel(t)))), 1)


(***************************************************************************)
(* Analysis functions.                                                     *)
(***************************************************************************)
Raise(exc) == [kind |-> "raise", exc |-> exc]

IsRaise(x) == "kind" \in DOMAIN x /\ x.kind = "raise"

\* a <= b on timestamps.
TsLe(a, b) ==
    LET ka == <<a.y, a.mo, a.d, a.h, a.mi, a.s, a.us>>
        kb == <<b.y, b.mo, b.d, b.h, b.mi, b.s, b.us>>
    IN \/ ka = kb
       \/ \E p \in 1..7 : ka[p] < kb[p] /\ \A q \in 1..(p - 1) : ka[q] = kb[q]

\* Series.dropna() as the sequence of present values, in order.
RECURSIVE DropNa(_)
DropNa(column) ==
    IF Len(column) = 0 THEN <<>>
    ELSE (IF NotNa(Head(column)) THEN <<Head(column)>> ELSE <<>>) \o DropNa(Tail(column))

\* Series.min() / Series.max() of a datetime column: missing values are
\* skipped, and the result is missing when none is present.
TsMin(column) ==
    LET p == Range(DropNa(column))
    IN IF p = {} THEN NaN ELSE CHOOSE a \in p : \A b \in p : TsLe(a, b)

TsMax(column) ==
    LET p == Range(DropNa(column))
    IN IF p = {} THEN NaN ELSE CHOOSE a \in p : \A b \in p : TsLe(b, a)

\* (count / len * 100).round(2) in hundredths of a percent; missing when the
\* table has no rows (0 / 0).
MissingPct(column, n) ==
    LET cnt == Cardinality({i \in 1..n : IsNa(column[i])})
    IN IF n = 0 THEN NaN
       ELSE [k |-> "pct", hundredths |-> (2 * 10000 * cnt + n) \div (2 * n)]

\* df.select_dtypes(include=[np.number]).columns.tolist()
NumericCols(t) == KeepCols(t.cols, {c \in Range(t.cols) : t.dtype[c] = "num"})

\* get_data_summary: df['Date'] raises KeyError when the column is missing.
GetDataSummary(t) ==
    IF ~HasCol(t, "Date") THEN Raise("KeyError")
    ELSE [kind            |-> "summary",
          total_records   |-> t.n,
          start           |-> TsMin(t.data["Date"]),
          end             |-> TsMax(t.data["Date"]),
          missing         |-> [c \in Range(t.cols) |-> MissingPct(t.data[c], t.n)],
          numeric_columns |-> NumericCols(t)]

RECURSIVE SumSeq(_)
SumSeq(v) == IF Len(v) = 0 THEN 0 ELSE Head(v) + SumSeq(Tail(v))

RECURSIVE Sorted(_)
Sorted(v) ==
    IF Len(v) = 0 THEN <<>>
    ELSE LET m == CHOOSE i \in 1..Len(v) : \A j \in 1..Len(v) : v[i] <= v[j]
         IN <<v[m]>> \o Sorted(SubSeq(v, 1, m - 1) \o SubSeq(v, m + 1, Len(v)))

\* A mean as the sum of cnt values.
Mean(sum, cnt) == [k |-> "mean", sum |-> sum, cnt |-> cnt]

\* mean, median, max, min and std (as the sample variance num/den, missing for a
\* single value) of a non-empty sequence of numbers.
Stats(v) ==
    LET n  == Len(v)
        sv == Sorted(v)
        sq == SumSeq([i \in 1..n |-> v[i] * v[i]])
    IN [k      |-> "stats",
        mean   |-> Mean(SumSeq(v), n),
        median |-> IF n % 2 = 1 THEN Mean(sv[(n + 1) \div 2], 1)
                   ELSE Mean(sv[n \div 2] + sv[(n \div 2) + 1], 2),
        max    |-> sv[n],
        min    |-> sv[1],
        std    |-> IF n = 1 THEN NaN
                   ELSE [k |-> "var", num |-> n * sq - SumSeq(v) * SumSeq(v),
                         den |-> n * (n - 1)]]

NoValidData == [k |-> "marker", text |-> "No valid data available"]

ColumnsToCheck == [c \in {"CO(GT)", "T", "RH", "AH"} |->
                     CASE c = "CO(GT)" -> "co"
                       [] c = "T"      -> "temperature"
                       [] c = "RH"     -> "humidity"
                       [] c = "AH"     -> "absolute_humidity"]

\* The numbers of a numeric column, missing values dropped.
PresentValues(column) == [i \in 1..Len(DropNa(column)) |-> DropNa(column)[i].v]

\* Mutant of MetricEntry: no check for an empty column, the statistics of
\* nothing are all missing.
MetricEntryNoCheck(column) ==
    IF Len(DropNa(column)) > 0 THEN Stats(PresentValues(column))
    ELSE [k |-> "stats", mean |-> NaN, median |-> NaN, max |-> NaN, min |-> NaN,
          std |-> NaN]

\* The entry of one curated column.
MetricEntry(column) ==
    IF Len(DropNa(column)) > 0 THEN Stats(PresentValues(column)) ELSE NoValidData

\* DataFrame.empty: no rows or no columns.
DfEmpty(t) == t.n = 0 \/ Len(t.cols) = 0

\* calculate_air_quality_metrics
CalculateMetrics(t) ==
    IF DfEmpty(t) THEN [kind |-> "metrics", m |-> [name \in {} |-> NoValidData]]
    ELSE LET have == {c \in DOMAIN ColumnsToCheck : HasCol(t, c)}
         IN [kind |-> "metrics",
             m    |-> [name \in {ColumnsToCheck[c] : c \in have} |->
                         MetricEntry(t.data[CHOOSE c \in have :
                                               ColumnsToCheck[c] = name])]]

\* A bound of the date range is used when it is truthy: a non-empty text.
Truthy(b) == b.k = "str" /\ Len(b.s) > 0

\* df[df['Date'] >= bound] and df[df['Date'] <= bound]: the rows kept; a missing
\* Date compares false.
RowsFrom(t, bound) ==
    RowsWhere(t.n, [i \in 1..t.n |->
                      NotNa(t.data["Date"][i]) /\ TsLe(bound, t.data["Date"][i])])

\* Mutant of RowsUpTo: the end bound is exclusive.
RowsBefore(t, bound) ==
    RowsWhere(t.n, [i \in 1..t.n |->
                      NotNa(t.data["Date"][i]) /\ TsLe(t.data["Date"][i], bound)
                        /\ t.data["Date"][i] # bound])

RowsUpTo(t, bound) ==
    RowsWhere(t.n, [i \in 1..t.n |->
                      NotNa(t.data["Date"][i]) /\ TsLe(t.data["Date"][i], bound)])

\* pd.to_datetime(bound): a text that is no date raises.
FromBound(t, bound) ==
    IF IsNa(bound) THEN Raise("ValueError") ELSE TakeRows(t, RowsFrom(t, bound))

UpToBound(t, bound) ==
    IF IsNa(bound) THEN Raise("ValueError") ELSE TakeRows(t, RowsUpTo(t, bound))

FilterStart(t, start) ==
    IF ~Truthy(start) THEN t
    ELSE IF ~HasCol(t, "Date") THEN Raise("KeyError")
    ELSE FromBound(t, InferParse(start.s))

FilterEnd(t, end) ==
    IF ~Truthy(end) THEN t
    ELSE IF ~HasCol(t, "Date") THEN Raise("KeyError")
    ELSE UpToBound(t, InferParse(end.s))

\* filter_by_date_range on the value of a table: a table, or the exception.
FilterRest(a, end) == IF IsRaise(a) THEN a ELSE FilterEnd(a, end)

FilterByDateRange(t, start, end) == FilterRest(FilterStart(t, start), end)

\* The distinct present timestamps of a column, ascending (the group keys).
RECURSIVE SortedTs(_)
SortedTs(set) ==
    IF set = {} THEN <<>>
    ELSE LET m == CHOOSE a \in set : \A b \in set : TsLe(a, b)
         IN <<m>> \o SortedTs(set \ {m})

\* The mean of a numeric column over the rows idx, missing values skipped.
GroupMean(column, idx) ==
    LET v == PresentValues([i \in 1..Len(idx) |-> column[idx[i]]])
    IN IF Len(v) = 0 THEN NaN ELSE Mean(SumSeq(v), Len(v))

\* get_daily_averages: groupby('Date') raises KeyError when the column is missing.
GetDailyAverages(t) ==
    IF ~HasCol(t, "Date") THEN Raise("KeyError")
    ELSE LET numeric_cols == NumericCols(t)
             keys == SortedTs(Range(DropNa(t.data["Date"])))
             rows(g) == RowsWhere(t.n, [i \in 1..t.n |-> t.data["Date"][i] = keys[g]])
         IN [cols  |-> <<"Date">> \o numeric_cols,
             n     |-> Len(keys),
             data  |-> [c \in {"Date"} \cup Range(numeric_cols) |->
                          IF c = "Date" THEN keys
                          ELSE [g \in 1..Len(keys) |-> GroupMean(t.data[c], rows(g))]],
             dtype |-> [c \in {"Date"} \cup Range(numeric_cols) |->
                          IF c = "Date" THEN "datetime" ELSE "num"]]


(***************************************************************************)
(* Objects.  heap holds the tables that exist, a reference is a position   *)
(* in it.  A call that returns a table returns a reference.                *)
(***************************************************************************)
\* df.copy(): a new object with the same contents.
DfCopy(h, r) == [heap |-> Append(h, h[r]), ref |-> Len(h) + 1]

\* clean_data(df): the copy is cleaned, the argument is left alone.
CleanCopy(c) ==
    [heap |-> [c.heap EXCEPT ![c.ref] = CleanData(c.heap[c.ref])], ref |-> c.ref]

\* Mutant of CleanDataCall: the argument itself is cleaned and returned.
CleanDataInPlace(h, r) == CleanCopy([heap |-> h, ref |-> r])

CleanDataCall(h, r) == CleanCopy(DfCopy(h, r))

\* filter_by_date_range(df, start, end): the copy is filtered.
Returned(h, c, out) ==
    IF IsRaise(out) THEN [heap |-> h, out |-> out]
    ELSE [heap |-> [c.heap EXCEPT ![c.ref] = out],
          out  |-> [kind |-> "table", ref |-> c.ref]]

FilterCopy(h, c, start, end) ==
    Returned(h, c, FilterByDateRange(c.heap[c.ref], start, end))

FilterCall(h, r, start, end) == FilterCopy(h, DfCopy(h, r), start, end)

\* get_daily_averages(df): the grouped means are a new table.
DailyCall(h, r) ==
    Returned(h, [heap |-> Append(h, h[r]), ref |-> Len(h) + 1], GetDailyAverages(h[r]))

(***************************************************************************)
(* load_and_clean_data of the dashboard, from the table that was fetched.  *)
(***************************************************************************)
\* Python's None.
None == [k |-> "none"]

\* df.drop(columns=[c])
DropCol(t, c) ==
    [cols  |-> KeepCols(t.cols, Range(t.cols) \ {c}),
     n     |-> t.n,
     data  |-> [x \in Range(t.cols) \ {c} |-> t.data[x]],
     dtype |-> [x \in Range(t.cols) \ {c} |-> t.dtype[x]]]

\* time_col_saved: the parsed times of the Time column, when there is one.
SavedTime(t) ==
    IF HasCol(t, "Time")
      THEN [i \in 1..t.n |-> ParseTimeCell(t.data["Time"][i])]
      ELSE None

\* The Datetime of one record from its Date and the text of its saved time; the
\* date text of a missing Date is missing, and so is what it is joined to.
AppCombine(date, time) ==
    IF IsNa(date) THEN NaN ELSE InferParse(DateText(date) \o <<" ">> \o time.s)

AppDatetime(t1) ==
    SetCol(t1, "Datetime",
           [i \in 1..t1.n |-> AppCombine(t1.data["Date"][i], t1.data["Time"][i])],
           "datetime")

\* The saved times added back as text, and the Datetime made of Date and Time.
AppDerive(t, saved) ==
    AppDatetime(SetCol(t, "Time", [i \in 1..t.n |-> Str(AsStr(saved[i]))], "object"))

\* The orders sort_values('Datetime') may leave the rows in: ascending, missing
\* values last, equal keys in any order.
SortOrders(t) ==
    {idx \in [1..t.n -> 1..t.n] :
        /\ \A a, b \in 1..t.n : a # b => idx[a] # idx[b]
        /\ \A a, b \in 1..t.n : a < b =>
              \/ IsNa(t.data["Datetime"][idx[b]])
              \/ /\ NotNa(t.data["Datetime"][idx[a]])
                 /\ TsLe(t.data["Datetime"][idx[a]], t.data["Datetime"][idx[b]])}

\* The derived table in each order sort_values may leave its rows in.
AppSorted(t1) == {TakeRows(t1, idx) : idx \in SortOrders(t1)}

\* The tables clean_data may be called on: Time is parsed and dropped, and, when
\* there is a Date, added back with the Datetime, the rows sorted by it.
AppDropped(t, hadTime) ==
    IF hadTime /\ HasCol(t, "Date")
      THEN AppSorted(AppDerive(DropCol(t, "Time"), SavedTime(t)))
      ELSE IF hadTime THEN {DropCol(t, "Time")} ELSE {t}

AppPrepared(t) == AppDropped(ParseDateColumn(t), HasCol(t, "Time"))

\* The check after clean_data: Time and Datetime are derived again only when
\* clean_data returned no Datetime column.
AppEnsure(t, saved, hadTime) ==
    IF ~HasCol(t, "Datetime") /\ HasCol(t, "Date") /\ hadTime
      THEN AppSorted(AppDerive(t, saved))
      ELSE {t}

\* load_and_clean_data: the tables it may return.
LoadAndCleanData(t) ==
    UNION {AppEnsure(CleanData(p), SavedTime(t), HasCol(t, "Time")) : p \in AppPrepared(t)}

(***************************************************************************)
(* The files and arguments the model draws from.                           *)
(***************************************************************************)
MaxRows == 2

D_Mar10 == <<"0", "3", "/", "1", "0", "/", "2", "0", "0", "4">>
D_Mar11 == <<"0", "3", "/", "1", "1", "/", "2", "0", "0", "4">>
D_Bad   == <<"x">>
T_HMS   == <<"1", "8", ":", "0", "0", ":", "0", "0">>
T_Dots  == <<"1", "8", ".", "0", "0", ".", "0", "0">>
T_HM    == <<"1", "8", ":", "0", "0">>
T_Frac  == <<"1", "8", ":", "0", "0", ":", "0", "0", ".", "5">>
T_Bad   == <<"n", "o", "t", "-", "a", "-", "t", "i", "m", "e">>
N_2c6   == <<"2", ",", "6">>
N_9c4   == <<"9", ",", "4">>
N_m200  == <<"-", "2", "0", "0">>
N_Bad   == <<"x">>
X_Text  == <<"a", ",", "b">>
B_Mar10 == <<"2", "0", "0", "4", "-", "0", "3", "-", "1", "0">>
B_Mar11 == <<"2", "0", "0", "4", "-", "0", "3", "-", "1", "1">>

\* The fields a column of a file may hold.
FieldTexts(col) ==
    CASE col = "Date"   -> {D_Mar10, D_Mar11, D_Bad, <<>>}
      [] col = "Time"   -> {T_HMS, T_Dots, T_HM, T_Frac, T_Bad, <<>>}
      [] col = "CO(GT)" -> {N_2c6, N_9c4, N_m200, N_Bad, <<>>}
      [] col = "Extra"  -> {X_Text, N_m200, <<>>}
      [] OTHER          -> {<<>>}

\* The headers of the files: the trailing delimiter of a line gives the last,
\* unnamed and empty, column.
DateTimeHeaders == { <<"Date", "Time">>, <<"Date">>, <<"Time">> }

MeasureHeaders == { <<"Date", "CO(GT)">>, <<"CO(GT)", "Extra", "Unnamed: 3">> }

Headers == DateTimeHeaders \cup MeasureHeaders

Lines(header) == [1..Len(header) -> UNION {FieldTexts(header[j]) : j \in 1..Len(header)}]

\* The files of at most MaxRows lines under one of the headers.
Files(headers) ==
    UNION { UNION { { [header |-> hd, lines |-> ls] :
                        ls \in [1..n -> {l \in Lines(hd) :
                                           \A j \in 1..Len(hd) : l[j] \in FieldTexts(hd[j])}] }
                    : n \in 0..MaxRows }
            : hd \in headers }


\* The bounds a date range is asked with.
DateBounds == {None, Str(B_Mar10), Str(B_Mar11)}

(***************************************************************************)
(* The calls.                                                              *)
(***************************************************************************)
NoCall == [op |-> "none"]

\* Nothing is loaded yet; the file is one of those under headers.
InitWith(headers) ==
    /\ csv \in Files(headers)
    /\ heap = <<>>
    /\ df = 0
    /\ clean = 0
    /\ clean2 = 0
    /\ app = 0
    /\ res = NoCall

Init == InitWith(Headers)

\* df = load_data(path)
Load ==
    /\ df = 0
    /\ heap' = Append(heap, LoadData(csv))
    /\ df' = Len(heap) + 1
    /\ UNCHANGED <<csv, clean, clean2, app, res>>

\* app = load_and_clean_data(), the dashboard's own way from the fetched table
\* to the cleaned one.
LoadAndClean ==
    /\ df # 0 /\ clean = 0 /\ app = 0
    /\ \E out \in LoadAndCleanData(DfCopy(heap, df).heap[DfCopy(heap, df).ref]) :
          heap' = Append(heap, out) /\ app' = Len(heap) + 1
    /\ UNCHANGED <<csv, df, clean, clean2, res>>

\* clean = clean_data(df)
Clean ==
    /\ df # 0 /\ clean = 0 /\ app = 0
    /\ \E ret \in {CleanDataCall(heap, df)} :
          heap' = ret.heap /\ clean' = ret.ref
    /\ UNCHANGED <<csv, df, clean2, app, res>>

\* clean2 = clean_data(clean)
Reclean ==
    /\ clean # 0 /\ clean2 = 0
    /\ \E ret \in {CleanDataCall(heap, clean)} :
          heap' = ret.heap /\ clean2' = ret.ref
    /\ UNCHANGED <<csv, df, clean, app, res>>

\* get_data_summary(clean)
Summary ==
    /\ clean # 0 /\ res = NoCall
    /\ res' = [op |-> "summary", arg |-> clean, out |-> GetDataSummary(heap[clean])]
    /\ UNCHANGED <<csv, heap, df, clean, clean2, app>>

\* The tables the metrics are asked of: the cleaned table, or the table a
\* date-range filter has just returned.
Targets ==
    IF clean = 0 THEN {}
    ELSE IF res = NoCall THEN {clean}
    ELSE IF res.op = "filter" /\ ~IsRaise(res.out) THEN {res.out.ref}
    ELSE {}

\* calculate_air_quality_metrics(df)
Metrics ==
    /\ \E arg \in Targets :
          res' = [op |-> "metrics", arg |-> arg, out |-> CalculateMetrics(heap[arg])]
    /\ UNCHANGED <<csv, heap, df, clean, clean2, app>>

\* filter_by_date_range(clean, start, end)
Filter ==
    /\ clean # 0 /\ res = NoCall
    /\ \E start \in DateBounds, end \in DateBounds :
          \E ret \in {FilterCall(heap, clean, start, end)} :
             /\ heap' = ret.heap
             /\ res' = [op |-> "filter", arg |-> clean, start |-> start, end |-> end,
                        out |-> ret.out]
    /\ UNCHANGED <<csv, df, clean, clean2, app>>

\* get_daily_averages(clean)
DailyAverages ==
    /\ clean # 0 /\ res = NoCall
    /\ \E ret \in {DailyCall(heap, clean)} :
          heap' = ret.heap /\ res' = [op |-> "daily", arg |-> clean, out |-> ret.out]
    /\ UNCHANGED <<csv, df, clean, clean2, app>>

Next == Load \/ LoadAndClean \/ Clean \/ Reclean \/ Summary \/ Metrics \/ Filter \/ DailyAverages

Spec == Init /\ [][Next]_vars

\* The same calls over the files of dates and times only, and over the files
\* with measurement columns only.
InitDateTime == InitWith(DateTimeHeaders)

SpecDateTime == InitDateTime /\ [][Next]_vars

InitMeasure == InitWith(MeasureHeaders)

SpecMeasure == InitMeasure /\ [][Next]_vars


(***************************************************************************)
(* The claims.                                                             *)
(***************************************************************************)
\* The cell of column c in row i, missing when the table has no such column.
CellOf(t, c, i) == IF HasCol(t, c) THEN t.data[c][i] ELSE NaN

\* The tables clean_data has returned.
CleanedRefs == {clean, clean2, app} \ {0}

NamedCols == Range(NumericColumns)

\* C1: no cell of a named measurement column of a table returned by clean_data
\* equals the sentinel -200; each is a number other than the sentinel, or absent.
C1_NoSentinelAfterClean ==
    clean # 0 =>
       \A c \in NamedCols \cap Range(heap[clean].cols) : \A i \in 1..heap[clean].n :
          /\ heap[clean].data[c][i].k \in {"num", "nan"}
          /\ heap[clean].data[c][i] # Num(10 * Sentinel)

\* C2: clean_data is idempotent: cleaning a cleaned table changes no cell.
C2_Idempotent == clean2 # 0 => heap[clean2] = heap[clean]

\* The time of day expected of one raw Time value by the chain of stages.
ChainStage2(norm) == Strptime(norm, 3)

ChainStage3(norm) == Strptime(norm, 2)

ChainResult(orig, norm) ==
    IF NotNa(ChainStage2(norm)) THEN DtTime(ChainStage2(norm))
    ELSE IF NotNa(ChainStage3(norm)) THEN DtTime(ChainStage3(norm))
    ELSE IF NotNa(InferParse(orig)) THEN DtTime(InferParse(orig))
    ELSE NaN

ChainOf(orig) == ChainResult(orig, StrReplace(orig, ".", ":"))

DatetimeAsClaimed(t, i) ==
    /\ NotNa(t.data["DateTime"][i])
          <=> (NotNa(CellOf(t, "Date", i)) /\ NotNa(CellOf(t, "Time", i)))
    /\ t.data["Datetime"][i] = t.data["DateTime"][i]
    /\ NotNa(t.data["DateTime"][i]) =>
          t.data["DateTime"][i] = TsOf(t.data["Date"][i], t.data["Time"][i])

BeforeCoercion(t) == DeriveDateTime(ParseTimeColumn(ParseDateColumn(ReplaceSentinel(t))))

CoercedAsClaimed(pre, post) ==
    /\ post.cols = pre.cols
    /\ \A c \in Range(pre.cols) :
          IF c \in NamedCols
            THEN \A i \in 1..pre.n :
                    /\ post.data[c][i] = ToNumeric(StrReplace(AsStr(pre.data[c][i]), ",", "."))
                    /\ pre.data[c][i] = Str(N_9c4) => post.data[c][i] = Num(94)
                    /\ pre.data[c][i] = Str(N_Bad) => IsNa(post.data[c][i])
            ELSE post.data[c] = pre.data[c]

\* C5: the numeric stage turns each cell of a named measurement column into the
\* number its text reads as once ',' is replaced by '.' ("9,4" gives 9.4), or
\* absent, and leaves every cell of every other column as it was.
C5_NumericCoercion ==
    clean # 0 => CoercedAsClaimed(BeforeCoercion(heap[df]), heap[clean])

\* A malformed cell beside a comma-decimal one, and a column outside the named
\* set that holds a comma.
C5_Witness ==
    /\ clean # 0 /\ heap[df].n = 2
    /\ HasCol(heap[df], "CO(GT)") /\ HasCol(heap[df], "Extra")
    /\ heap[df].data["CO(GT)"][1] = Str(N_Bad)
    /\ heap[df].data["CO(GT)"][2] = Str(N_9c4)
    /\ heap[df].data["Extra"][2] = Str(X_Text)
    /\ heap[clean].data["CO(GT)"] = <<NaN, Num(94)>>
    /\ heap[clean].data["Extra"][2] = Str(X_Text)


\* The present numbers of a numeric column, as a set of row numbers.
PresentRows(t, c) == {i \in 1..t.n : NotNa(t.data[c][i])}

RECURSIVE SumOver(_, _)
SumOver(column, rows) ==
    IF rows = {} THEN 0
    ELSE LET i == CHOOSE x \in rows : TRUE
         IN column[i].v + SumOver(column, rows \ {i})

\* The statistics of the present values of a column, stated on the table.
StatsOfPresent(e, t, c) ==
    /\ e.k = "stats"
    /\ e.mean = Mean(SumOver(t.data[c], PresentRows(t, c)), Cardinality(PresentRows(t, c)))
    /\ \E i \in PresentRows(t, c) :
          e.max = t.data[c][i].v /\ \A j \in PresentRows(t, c) : t.data[c][j].v <= e.max
    /\ \E i \in PresentRows(t, c) :
          e.min = t.data[c][i].v /\ \A j \in PresentRows(t, c) : t.data[c][j].v >= e.min
    /\ e.median.sum * 2 >= e.min * 2 * e.median.cnt
    /\ e.median.sum * 2 <= e.max * 2 * e.median.cnt
    /\ Cardinality(PresentRows(t, c)) = 1 <=> IsNa(e.std)

\* The entry of curated column c of table t in the metrics m, as the claim gives it.
EntryAsClaimed(m, t, c) ==
    /\ ColumnsToCheck[c] \in DOMAIN m
    /\ IF PresentRows(t, c) = {} THEN m[ColumnsToCheck[c]] = NoValidData
       ELSE StatsOfPresent(m[ColumnsToCheck[c]], t, c)

\* C6 as stated: for every table passed to calculate_air_quality_metrics, a
\* curated column with no present value has the entry 'No valid data available',
\* any other curated column the statistics of its present values.
C6_MarkerForEveryTable ==
    res.op = "metrics" =>
       \A c \in DOMAIN ColumnsToCheck \cap Range(heap[res.arg].cols) :
          EntryAsClaimed(res.out.m, heap[res.arg], c)

\* C6 as amended: the same for every table that has at least one row; for a
\* table with no rows the result has no entry at all.
C6_MarkerForNonEmptyTable ==
    res.op = "metrics" =>
       IF heap[res.arg].n = 0 THEN DOMAIN res.out.m = {}
       ELSE \A c \in DOMAIN ColumnsToCheck \cap Range(heap[res.arg].cols) :
               EntryAsClaimed(res.out.m, heap[res.arg], c)

\* A table with rows whose CO(GT) column has no present value, and its marker.
C6_Witness ==
    /\ res.op = "metrics" /\ heap[res.arg].n = 2
    /\ HasCol(heap[res.arg], "CO(GT)") /\ PresentRows(heap[res.arg], "CO(GT)") = {}
    /\ res.out.m["co"] = NoValidData

\* The timestamp a bound of the date range stands for.
BoundTs(b) == IF b = Str(B_Mar10) THEN Ts(2004, 3, 10, 0, 0, 0, 0)
              ELSE Ts(2004, 3, 11, 0, 0, 0, 0)

\* Row i of t lies in the range: each bound that is given is met, inclusive.
InRange(t, i, start, end) ==
    /\ start # None => (NotNa(t.data["Date"][i]) /\ TsLe(BoundTs(start), t.data["Date"][i]))
    /\ end # None => (NotNa(t.data["Date"][i]) /\ TsLe(t.data["Date"][i], BoundTs(end)))

\* out holds exactly the rows of t in the range, in their order.
ExactlyRowsInRange(out, t, start, end) ==
    /\ out.cols = t.cols
    /\ out.n = Cardinality({i \in 1..t.n : InRange(t, i, start, end)})
    /\ \E pos \in [1..out.n -> 1..t.n] :
          /\ \A a, b \in 1..out.n : a < b => pos[a] < pos[b]
          /\ \A a \in 1..out.n : InRange(t, pos[a], start, end)
          /\ \A c \in Range(t.cols) : \A a \in 1..out.n : out.data[c][a] = t.data[c][pos[a]]

\* C7: filter_by_date_range returns exactly the rows whose Date lies between the
\* bounds, both inclusive, in their order; an absent bound does not constrain,
\* and with both absent every row is returned.
C7_FilterInclusive ==
    (res.op = "filter"
       /\ (HasCol(heap[res.arg], "Date") \/ (res.start = None /\ res.end = None))) =>
       /\ ~IsRaise(res.out)
       /\ ExactlyRowsInRange(heap[res.out.ref], heap[res.arg], res.start, res.end)
       /\ (res.start = None /\ res.end = None) => heap[res.out.ref] = heap[res.arg]

\* Both bounds on 10 March over a table of a 10 March and an 11 March record.
C7_Witness ==
    /\ res.op = "filter" /\ res.start = Str(B_Mar10) /\ res.end = Str(B_Mar10)
    /\ heap[res.arg].n = 2 /\ HasCol(heap[res.arg], "Date")
    /\ heap[res.arg].data["Date"] = <<Ts(2004, 3, 11, 0, 0, 0, 0), Ts(2004, 3, 10, 0, 0, 0, 0)>>
    /\ ~IsRaise(res.out)
    /\ heap[res.out.ref].data["Date"] = <<Ts(2004, 3, 10, 0, 0, 0, 0)>>

\* C8: no call changes a table that exists, and a call that returns a table
\* returns a new one.
C8_InputsNotMutated ==
    [][ /\ \A r \in 1..Len(heap) : Len(heap') >= r /\ heap'[r] = heap[r]
        /\ clean' # clean => clean' > Len(heap)
        /\ clean2' # clean2 => clean2' > Len(heap)
        /\ app' # app => app' > Len(heap)
        /\ (res' # res /\ res'.op \in {"filter", "daily"} /\ ~IsRaise(res'.out))
              => res'.out.ref > Len(heap) ]_vars

\* After cleaning twice and filtering, the loaded table is as load_data left it
\* and the cleaned one as clean_data left it.
C8_Witness ==
    /\ clean2 # 0 /\ res.op = "filter" /\ ~IsRaise(res.out)
    /\ heap[df].n = 2 /\ heap[df] = LoadData(csv)
    /\ heap[clean] = CleanData(LoadData(csv)) /\ heap[clean] # heap[df]
    /\ Cardinality({df, clean, clean2, res.out.ref}) = 4

\* C9 as stated: when the table lacks the Date or the Time column, clean_data
\* gives a Datetime that is absent in every record, and get_data_summary,
\* filter_by_date_range and get_daily_averages complete without an error.
C9_MissingColumnNeverFails ==
    /\ (clean # 0 /\ ~(HasCol(heap[df], "Date") /\ HasCol(heap[df], "Time"))) =>
          \A i \in 1..heap[clean].n : IsNa(heap[clean].data["Datetime"][i])
    /\ (res.op \in {"summary", "filter", "daily"}
          /\ ~(HasCol(heap[res.arg], "Date") /\ HasCol(heap[res.arg], "Time"))) =>
          ~IsRaise(res.out)

\* Column c of table t has a present value in some row.
HasPresent(t, c) == \E i \in 1..t.n : NotNa(t.data[c][i])

\* C10 as stated: every column of a table clean_data makes of load_data's
\* output has a present value in some row.
C10_NoEmptyColumnAfterClean ==
    clean # 0 => \A c \in Range(heap[clean].cols) : HasPresent(heap[clean], c)

\* The columns of a file that have a non-empty field in some line.
FilledColumns(file) ==
    {file.header[j] : j \in {k \in 1..Len(file.header) :
                               \E i \in 1..Len(file.lines) : file.lines[i][k] # <<>>}}

\* C10 as amended: load_data keeps exactly the columns that have a value in some
\* row, so every column of its output has a present value; clean_data keeps
\* every column it is given and adds DateTime and Datetime.
C10_NoEmptyColumnAfterLoad ==
    /\ df # 0 =>
          /\ Range(heap[df].cols) = FilledColumns(csv)
          /\ \A c \in Range(heap[df].cols) : HasPresent(heap[df], c)
    /\ clean # 0 => heap[clean].cols = heap[df].cols \o <<"DateTime", "Datetime">>

\* A file whose trailing column is empty, loaded without it.
C10_Witness ==
    /\ df # 0 /\ Len(csv.lines) = 2 /\ clean # 0
    /\ "Unnamed: 3" \in Range(csv.header)
    /\ heap[df].cols = <<"CO(GT)", "Extra">>


====
